---- MODULE Spec2Model ----
(***************************************************************************)
(* Model of maxdefense.hh: the 0/1 knapsack engine (dynamic_max_defense,   *)
(* exhaustive_max_defense), filter_armor_vector and load_armor_database.   *)
(*                                                                         *)
(* Defense points are doubles in the source; the model draws them from     *)
(* small integers, on which double arithmetic is exact.  An ArmorVector    *)
(* holds shared pointers: a catalog is a sequence of item records and a    *)
(* selection made from a catalog is the sequence of the (1-based)          *)
(* positions of the selected items, so that an item keeps its identity.    *)
(*                                                                         *)
(* Four specifications share the variables:                                *)
(*   Spec        both solvers on every small catalog, budget after budget  *)
(*   SpecEnum    the enumeration arithmetic of exhaustive_max_defense on   *)
(*               catalogs of up to 64 items                                *)
(*   SpecFilter  filter_armor_vector                                       *)
(*   SpecLoad    load_armor_database                                       *)
(***************************************************************************)
EXTENDS Integers, Sequences, FiniteSets, TLC

(* ---------------- bounds of the model ---------------- *)
MaxItems == 2
MaxCost == 3
MaxDefense == 2
MaxBudget == 4
MaxEnumSteps == 4
MaxSource == 3
LowDefense == 1
MaxLimit == 2
MaxLines == 2

(* ---------------- program constants ---------------- *)
Sentinel == -999999
IntBits == 31
IntMax == 2147483647
IntMin == (-2147483647) - 1
MaxExhaustiveSize == 64
FieldCount == 3

VARIABLES armors, total_cost, i, pc,
          table, horz, choice, dynRet,
          subsetAmt, index, bestset, bestdefense, exhRet,
          source, min_defense, max_defense, total_size, FilteredArmor,
          file, line_number, result, loadRet

dynVars == <<table, horz, choice, dynRet>>
exhVars == <<subsetAmt, index, bestset, bestdefense, exhRet>>
filterVars == <<source, min_defense, max_defense, total_size, FilteredArmor>>
loadVars == <<file, line_number, result, loadRet>>
vars == <<armors, total_cost, i, pc, dynVars, exhVars, filterVars, loadVars>>

(* ---------------- ArmorItem / ArmorVector ---------------- *)
ArmorItem == [cost : 1..MaxCost, defense : 0..MaxDefense]

RECURSIVE SeqsUpTo(_, _)
SeqsUpTo(S, n) ==
  IF n = 0 THEN {<<>>}
  ELSE LET shorter == SeqsUpTo(S, n - 1)
       IN  shorter \cup {Append(s, x) : s \in {t \in shorter : Len(t) = n - 1}, x \in S}

ArmorVector == SeqsUpTo(ArmorItem, MaxItems)

(* sum_armor_vector over the selection sel (positions into catalog a) *)
RECURSIVE SumCost(_, _)
SumCost(a, sel) ==
  IF sel = <<>> THEN 0 ELSE a[Head(sel)].cost + SumCost(a, Tail(sel))

RECURSIVE SumDefense(_, _)
SumDefense(a, sel) ==
  IF sel = <<>> THEN 0 ELSE a[Head(sel)].defense + SumDefense(a, Tail(sel))

(* the values of the variables a specification does not use *)
DynIdle ==
  /\ table = <<>>
  /\ horz = 0
  /\ choice = <<>>
  /\ dynRet = <<>>

ExhIdle ==
  /\ subsetAmt = 0
  /\ index = 0
  /\ bestset = <<>>
  /\ bestdefense = 0
  /\ exhRet = <<>>

FilterIdle ==
  /\ source = <<>>
  /\ min_defense = 0
  /\ max_defense = 0
  /\ total_size = 0
  /\ FilteredArmor = <<>>

LoadIdle ==
  /\ file = [readable |-> FALSE, lines |-> <<>>]
  /\ line_number = 0
  /\ result = <<>>
  /\ loadRet = [null |-> TRUE, items |-> <<>>]

(* ======================================================================= *)
(* dynamic_max_defense                                                     *)
(* ======================================================================= *)
max(a, b) == IF a >= b THEN a ELSE b

(* the table after the fill constructor and the sentinel loops *)
InitialTable(n, budget) ==
  [r \in 0..n |-> [c \in 0..budget |-> IF r >= 1 /\ c >= 1 THEN Sentinel ELSE 0]]

(* the value the fill loop stores in table[r][c], r >= 1, c >= 1 *)
TableEntry(t, a, r, c) ==
  IF c - a[r].cost > 0
  THEN max(t[r - 1][c], t[r - 1][c - a[r].cost] + a[r].defense)
  ELSE t[r - 1][c]

(* rows r..n of the fill loop; row r reads row r-1 only *)
RECURSIVE FillRows(_, _, _, _)
FillRows(t, a, budget, r) ==
  IF r > Len(a) THEN t
  ELSE FillRows([t EXCEPT ![r] = [c \in 0..budget |->
                     IF c >= 1 THEN TableEntry(t, a, r, c) ELSE t[r][c]]],
                a, budget, r + 1)

FilledTable(a, budget) == FillRows(InitialTable(Len(a), budget), a, budget, 1)

(* the test of the backtracking loop: item r was taken at column h *)
Taken(t, r, h) == t[r][h] # 0 /\ t[r][h] # t[r - 1][h]

(* a backtracking step that forgets to move the column *)
NextHorzStays(h, c) == h

(* the column after taking an item of cost c *)
NextHorz(h, c) == h - c

DynFill ==
  /\ pc = "call_dyn"
  /\ table' = FilledTable(armors, total_cost)
  /\ horz' = total_cost
  /\ i' = Len(armors)
  /\ choice' = <<>>
  /\ pc' = "dyn_back"
  /\ UNCHANGED <<armors, total_cost, dynRet, exhVars, filterVars, loadVars>>

DynBack ==
  /\ pc = "dyn_back"
  /\ i > 0
  /\ IF Taken(table, i, horz)
     THEN /\ horz' = NextHorz(horz, armors[i].cost)
          /\ choice' = Append(choice, i)
     ELSE UNCHANGED <<horz, choice>>
  /\ i' = i - 1
  /\ UNCHANGED <<armors, total_cost, pc, table, dynRet, exhVars, filterVars, loadVars>>

DynReturn ==
  /\ pc = "dyn_back"
  /\ i = 0
  /\ dynRet' = [b \in DOMAIN dynRet \cup {total_cost} |->
                  IF b = total_cost THEN choice ELSE dynRet[b]]
  /\ pc' = "call_exh"
  /\ UNCHANGED <<armors, total_cost, i, table, horz, choice, exhVars, filterVars, loadVars>>

(* ======================================================================= *)
(* exhaustive_max_defense                                                  *)
(* ======================================================================= *)
RECURSIVE Pow2(_)
Pow2(n) == IF n = 0 THEN 1 ELSE 2 * Pow2(n - 1)

(* int subsetAmt = pow(2, n): the double 2^n converted to a 32-bit int.    *)
(* The conversion is undefined when 2^n does not fit: x86 yields INT_MIN,  *)
(* saturating targets yield INT_MAX.                                       *)
PowToInt(n) == IF n < IntBits THEN {Pow2(n)} ELSE {IntMin, IntMax}

(* bit j of a non-negative int; bit 31, the sign bit, is clear *)
LowBit(mask, j) == j < IntBits /\ (mask \div Pow2(j)) % 2 = 1

(* index & (1 << j) for index >= 0.  1 << 31 is INT_MIN, whose only bit is *)
(* the sign bit; a shift by 32 or more is undefined: the count is taken    *)
(* modulo 32 (x86) or the result is 0 (ARM).                               *)
BitTests(mask, j) ==
  IF j <= IntBits THEN {LowBit(mask, j)}
  ELSE {FALSE, LowBit(mask, j % (IntBits + 1))}

(* the candidates the inner loop can build: position j+1 when bit j tests set *)
Candidates(mask, n) ==
  LET F[k \in 0..n] ==
        IF k = 0 THEN {<<>>}
        ELSE UNION {{IF bit THEN Append(s, k) ELSE s : bit \in BitTests(mask, k - 1)}
                    : s \in F[k - 1]}
  IN  F[n]

(* a replacement test without the budget check *)
BetterIgnoringBudget(best, cdefense, budget, limit) == best < cdefense

(* a replacement test that wants the budget spent exactly *)
BetterExactBudget(best, cdefense, budget, limit) == best < cdefense /\ budget = limit

(* the replacement test of the enumeration loop *)
Better(best, cdefense, budget, limit) == best < cdefense /\ budget <= limit

ExhStart ==
  /\ pc = "call_exh"
  /\ Len(armors) < MaxExhaustiveSize
  /\ bestset' = <<>>
  /\ bestdefense' = 0
  /\ subsetAmt' \in PowToInt(Len(armors))
  /\ index' = 0
  /\ pc' = "exh_loop"
  /\ UNCHANGED <<armors, total_cost, i, exhRet, dynVars, filterVars, loadVars>>

(* assert(n < 64) fails *)
ExhAssertFails ==
  /\ pc = "call_exh"
  /\ ~(Len(armors) < MaxExhaustiveSize)
  /\ pc' = "abort"
  /\ UNCHANGED <<armors, total_cost, i, dynVars, exhVars, filterVars, loadVars>>

ExhStep ==
  /\ pc = "exh_loop"
  /\ index < subsetAmt
  /\ \E candidate \in Candidates(index, Len(armors)) :
       LET budget == SumCost(armors, candidate)
           cdefense == SumDefense(armors, candidate)
       IN  IF Better(bestdefense, cdefense, budget, total_cost)
           THEN /\ bestset' = candidate
                /\ bestdefense' = cdefense
           ELSE UNCHANGED <<bestset, bestdefense>>
  /\ index' = index + 1
  /\ UNCHANGED <<armors, total_cost, i, pc, subsetAmt, exhRet, dynVars, filterVars, loadVars>>

ExhReturn ==
  /\ pc = "exh_loop"
  /\ index >= subsetAmt
  /\ exhRet' = [b \in DOMAIN exhRet \cup {total_cost} |->
                  IF b = total_cost THEN bestset ELSE exhRet[b]]
  /\ pc' = "done"
  /\ UNCHANGED <<armors, total_cost, i, subsetAmt, index, bestset, bestdefense,
                 dynVars, filterVars, loadVars>>

(* the caller runs both solvers on the same catalog with a larger budget *)
NextBudget ==
  /\ pc = "done"
  /\ total_cost < MaxBudget
  /\ total_cost' = total_cost + 1
  /\ pc' = "call_dyn"
  /\ UNCHANGED <<armors, i, dynVars, exhVars, filterVars, loadVars>>

Init ==
  /\ armors \in ArmorVector
  /\ total_cost = 0
  /\ i = 0
  /\ pc = "call_dyn"
  /\ DynIdle
  /\ ExhIdle
  /\ FilterIdle
  /\ LoadIdle

Next ==
  \/ DynFill
  \/ DynBack
  \/ DynReturn
  \/ ExhStart
  \/ ExhStep
  \/ ExhReturn
  \/ NextBudget

Spec == Init /\ [][Next]_vars

(* ---------------- the enumeration on catalogs of up to 64 items -------- *)
UnitItem == [cost |-> 1, defense |-> 1]

UnitCatalog(n) == [k \in 1..n |-> UnitItem]

(* the enumeration loop, followed for its first MaxEnumSteps masks *)
ExhStepCapped ==
  /\ index < MaxEnumSteps
  /\ ExhStep

InitEnum ==
  /\ armors \in {UnitCatalog(n) : n \in 0..MaxExhaustiveSize}
  /\ total_cost \in 0..MaxBudget
  /\ i = 0
  /\ pc = "call_exh"
  /\ DynIdle
  /\ ExhIdle
  /\ FilterIdle
  /\ LoadIdle

NextEnum ==
  \/ ExhStart
  \/ ExhAssertFails
  \/ ExhStepCapped
  \/ ExhReturn

SpecEnum == InitEnum /\ [][NextEnum]_vars

(* ======================================================================= *)
(* filter_armor_vector                                                     *)
(* ======================================================================= *)
(* FilteredArmor->size() < total_size compares a size_t with an int: the   *)
(* int is converted to size_t, and a negative total_size becomes           *)
(* 2^64 + total_size, above the size of any vector.                        *)
SizeBelow(size, limit) == IF limit < 0 THEN TRUE ELSE size < limit

(* a loop body without the test for a positive defense *)
IncludedInRange(d, size, lo, hi, limit) ==
  /\ SizeBelow(size, limit)
  /\ lo < d /\ d <= hi

(* the test of the loop body on an item of defense d when size items are in *)
Included(d, size, lo, hi, limit) ==
  /\ d > 0 /\ SizeBelow(size, limit)
  /\ lo < d /\ d <= hi

FilterStep ==
  /\ pc = "filter_loop"
  /\ i < Len(source)
  /\ FilteredArmor' =
       IF Included(source[i + 1].defense, Len(FilteredArmor),
                   min_defense, max_defense, total_size)
       THEN Append(FilteredArmor, i + 1)
       ELSE FilteredArmor
  /\ i' = i + 1
  /\ UNCHANGED <<armors, total_cost, pc, source, min_defense, max_defense, total_size,
                 dynVars, exhVars, loadVars>>

FilterReturn ==
  /\ pc = "filter_loop"
  /\ ~(i < Len(source))
  /\ pc' = "filter_done"
  /\ UNCHANGED <<armors, total_cost, i, filterVars, dynVars, exhVars, loadVars>>

(* a raw catalog: defense may be zero or negative before filtering *)
RawItem == [cost : {1}, defense : (0 - LowDefense)..MaxDefense]

InitFilter ==
  /\ source \in SeqsUpTo(RawItem, MaxSource)
  /\ min_defense \in (0 - LowDefense - 1)..MaxDefense
  /\ max_defense \in (0 - LowDefense)..MaxDefense
  /\ total_size \in (0 - 1)..MaxLimit
  /\ FilteredArmor = <<>>
  /\ armors = <<>>
  /\ total_cost = 0
  /\ i = 0
  /\ pc = "filter_loop"
  /\ DynIdle
  /\ ExhIdle
  /\ LoadIdle

NextFilter ==
  \/ FilterStep
  \/ FilterReturn

SpecFilter == InitFilter /\ [][NextFilter]_vars

(* ======================================================================= *)
(* load_armor_database                                                     *)
(* ======================================================================= *)
(* A numeric field: text that operator>> reads as the number val, or text  *)
(* it cannot read.                                                         *)
Number(v) == [numeric |-> TRUE, val |-> v]
NotANumber == [numeric |-> FALSE, val |-> 0]

(* parse_dbl: the stream of a fresh stringstream is good, so the lambda    *)
(* returns true whatever the field holds; a failed extraction stores 0.    *)
parse_dbl(field) == [ok |-> TRUE, output |-> IF field.numeric THEN field.val ELSE 0]

(* size_t cost_gold from a double: undefined for a negative value, which   *)
(* a build turns into 0 or wraps to a huge positive number                 *)
ToSizeT(v) == IF v >= 0 THEN {[positive |-> v > 0, asInt |-> v]}
              ELSE {[positive |-> FALSE, asInt |-> 0], [positive |-> TRUE, asInt |-> v]}

(* the two assertions of the ArmorItem constructor *)
ConstructorAsserts(description, cost_gold) == description # "" /\ cost_gold.positive

(* the first line of the file *)
HeaderLine == [fields |-> FieldCount, descr |-> "name", cost |-> NotANumber,
               defense |-> NotANumber]

DataLine ==
  [fields : {FieldCount}, descr : {"", "helmet"},
   cost : {NotANumber} \cup {Number(v) : v \in (0 - 1)..MaxCost},
   defense : {NotANumber} \cup {Number(v) : v \in 0..1}]
  \cup {[fields |-> k, descr |-> "helmet", cost |-> Number(1), defense |-> Number(1)]
        : k \in {FieldCount - 1, FieldCount + 1}}

failure == [null |-> TRUE, items |-> <<>>]

LoadOpenFails ==
  /\ pc = "load_open"
  /\ ~file.readable
  /\ loadRet' = failure
  /\ pc' = "load_done"
  /\ UNCHANGED <<armors, total_cost, i, file, line_number, result, dynVars, exhVars, filterVars>>

LoadOpen ==
  /\ pc = "load_open"
  /\ file.readable
  /\ result' = <<>>
  /\ line_number' = 0
  /\ pc' = "load_loop"
  /\ UNCHANGED <<armors, total_cost, i, file, loadRet, dynVars, exhVars, filterVars>>

(* one iteration of the getline loop *)
LoadLine ==
  /\ pc = "load_loop"
  /\ line_number < Len(file.lines)
  /\ line_number' = line_number + 1
  /\ LET line == file.lines[line_number + 1]
     IN  IF line_number + 1 = 1
         THEN UNCHANGED <<result, loadRet, pc>>
         ELSE IF line.fields # FieldCount
         THEN /\ loadRet' = failure
              /\ pc' = "load_done"
              /\ UNCHANGED result
         ELSE LET cost == parse_dbl(line.cost)
                  defense == parse_dbl(line.defense)
              IN  IF cost.ok /\ defense.ok
                  THEN \E cost_gold \in ToSizeT(cost.output) :
                         IF ConstructorAsserts(line.descr, cost_gold)
                         THEN /\ result' = Append(result,
                                     [description |-> line.descr,
                                      cost |-> cost_gold.asInt,
                                      defense |-> defense.output])
                              /\ UNCHANGED <<loadRet, pc>>
                         ELSE /\ pc' = "abort"
                              /\ UNCHANGED <<result, loadRet>>
                  ELSE UNCHANGED <<result, loadRet, pc>>
  /\ UNCHANGED <<armors, total_cost, i, file, dynVars, exhVars, filterVars>>

LoadReturn ==
  /\ pc = "load_loop"
  /\ ~(line_number < Len(file.lines))
  /\ loadRet' = [null |-> FALSE, items |-> result]
  /\ pc' = "load_done"
  /\ UNCHANGED <<armors, total_cost, i, file, line_number, result, dynVars, exhVars, filterVars>>

InitLoad ==
  /\ file \in [readable : BOOLEAN,
               lines : {<<HeaderLine>> \o d : d \in SeqsUpTo(DataLine, MaxLines)}]
  /\ line_number = 0
  /\ result = <<>>
  /\ loadRet = failure
  /\ armors = <<>>
  /\ total_cost = 0
  /\ i = 0
  /\ pc = "load_open"
  /\ DynIdle
  /\ ExhIdle
  /\ FilterIdle

NextLoad ==
  \/ LoadOpenFails
  \/ LoadOpen
  \/ LoadLine
  \/ LoadReturn

SpecLoad == InitLoad /\ [][NextLoad]_vars

(* ======================================================================= *)
(* Reference definitions: subsets of a catalog as sets of positions.       *)
(* ======================================================================= *)
SetMax(S) == CHOOSE x \in S : \A y \in S : y <= x
SetMin(S) == CHOOSE x \in S : \A y \in S : x <= y

RECURSIVE CostOf(_, _)
CostOf(a, S) ==
  IF S = {} THEN 0
  ELSE LET p == CHOOSE q \in S : TRUE IN a[p].cost + CostOf(a, S \ {p})

RECURSIVE DefenseOf(_, _)
DefenseOf(a, S) ==
  IF S = {} THEN 0
  ELSE LET p == CHOOSE q \in S : TRUE IN a[p].defense + DefenseOf(a, S \ {p})

(* the bitmask of a subset: item at position p is bit p-1 *)
RECURSIVE MaskOf(_)
MaskOf(S) ==
  IF S = {} THEN 0
  ELSE LET p == CHOOSE q \in S : TRUE IN Pow2(p - 1) + MaskOf(S \ {p})

(* the members of S in increasing order *)
RECURSIVE InOrder(_)
InOrder(S) ==
  IF S = {} THEN <<>>
  ELSE LET p == SetMax(S) IN Append(InOrder(S \ {p}), p)

(* the subsets of the first k items of total cost <= b *)
Affordable(a, k, b) == {S \in SUBSET (1..k) : CostOf(a, S) <= b}

(* the maximum total defense of a subset of the first k items of cost <= b *)
Optimum(a, k, b) == SetMax({DefenseOf(a, S) : S \in Affordable(a, k, b)})

(* among the affordable subsets with mask below bound, the one of lowest   *)
(* mask among those of maximum defense                                     *)
LowestBest(a, bound, b) ==
  LET seen == {S \in Affordable(a, Len(a), b) : MaskOf(S) < bound}
      top == SetMax({DefenseOf(a, S) : S \in seen})
      low == SetMin({MaskOf(S) : S \in {T \in seen : DefenseOf(a, T) = top}})
  IN  CHOOSE S \in seen : MaskOf(S) = low

NoDuplicates(s) == \A p, q \in 1..Len(s) : p # q => s[p] # s[q]

(* ======================================================================= *)
(* Claims                                                                  *)
(* ======================================================================= *)

(* C1: the Solutions of dynamic_max_defense and exhaustive_max_defense on  *)
(* the same catalog and budget have equal total defense.                   *)
C1_EqualDefense ==
  \A b \in DOMAIN dynRet \cap DOMAIN exhRet :
    SumDefense(armors, dynRet[b]) = SumDefense(armors, exhRet[b])

(* C2: after the fill loop table[r][c] is the maximum total defense of a   *)
(* subset of the first r items of total cost <= c (an item of cost c is    *)
(* considered at column c), so the returned Solution has the maximum       *)
(* total defense of the subsets of cost <= budget.                         *)
C2_TableIsOptimum ==
  /\ pc = "dyn_back" =>
       \A r \in 0..Len(armors), c \in 0..total_cost :
         table[r][c] = Optimum(armors, r, c)
  /\ \A b \in DOMAIN dynRet :
       SumDefense(armors, dynRet[b]) = Optimum(armors, Len(armors), b)

(* C3: the Solution returned by either solver has total cost <= budget;    *)
(* at budget 0 it is empty.                                                *)
C3_WithinBudget ==
  /\ \A b \in DOMAIN dynRet : SumCost(armors, dynRet[b]) <= b
  /\ \A b \in DOMAIN exhRet : SumCost(armors, exhRet[b]) <= b
  /\ 0 \in DOMAIN dynRet => dynRet[0] = <<>>
  /\ 0 \in DOMAIN exhRet => exhRet[0] = <<>>

(* C3 witness: both solvers returned a non-empty Solution although some    *)
(* item of the catalog costs more than the budget.                         *)
C3_Witness ==
  /\ pc = "done"
  /\ \E k \in 1..Len(armors) : armors[k].cost > total_cost
  /\ dynRet[total_cost] # <<>>
  /\ exhRet[total_cost] # <<>>

(* The enumeration loop while 2^n fits an int: after every iteration the   *)
(* best is the lowest mask among the enumerated affordable subsets of      *)
(* maximum defense.                                                        *)
ExhaustiveKeepsLowestBest ==
  /\ (pc = "exh_loop" /\ index >= 1) =>
       /\ bestset = InOrder(LowestBest(armors, index, total_cost))
       /\ bestdefense = SumDefense(armors, bestset)
  /\ \A b \in DOMAIN exhRet :
       exhRet[b] = InOrder(LowestBest(armors, Pow2(Len(armors)), b))

(* C4: exhaustive_max_defense returns the subset of lowest bitmask among   *)
(* the subsets of cost <= budget and of maximum defense.  The catalogs of  *)
(* SpecEnum have up to 64 items: the statement is evaluated in full on     *)
(* those of at most MaxItems items, and on the longer ones through its     *)
(* consequence that the returned defense is at least that of every item    *)
(* that fits the budget alone.                                             *)
C4_ReturnsLowestBest ==
  \A b \in DOMAIN exhRet :
    /\ Len(armors) <= MaxItems =>
         exhRet[b] = InOrder(LowestBest(armors, Pow2(Len(armors)), b))
    /\ \A k \in 1..Len(armors) :
         armors[k].cost <= b => SumDefense(armors, exhRet[b]) >= armors[k].defense

(* the filter as the contract words it: range and limit alone decide *)
RECURSIVE FilterByContract(_, _, _, _, _)
FilterByContract(src, k, lo, hi, limit) ==
  IF k = 0 THEN <<>>
  ELSE LET before == FilterByContract(src, k - 1, lo, hi, limit)
       IN  IF lo < src[k].defense /\ src[k].defense <= hi /\ Len(before) < limit
           THEN Append(before, k)
           ELSE before

(* the same with the item's defense required to be positive, and with a    *)
(* negative limit excluding nothing                                        *)
RECURSIVE FilterPositive(_, _, _, _, _)
FilterPositive(src, k, lo, hi, limit) ==
  IF k = 0 THEN <<>>
  ELSE LET before == FilterPositive(src, k - 1, lo, hi, limit)
       IN  IF /\ src[k].defense > 0
              /\ lo < src[k].defense /\ src[k].defense <= hi
              /\ (limit < 0 \/ Len(before) < limit)
           THEN Append(before, k)
           ELSE before

C6_AtMostLimit ==
  pc = "filter_done" =>
    /\ Len(FilteredArmor) <= total_size \/ FilteredArmor = <<>>
    /\ \A k \in 1..Len(FilteredArmor) :
         /\ min_defense < source[FilteredArmor[k]].defense
         /\ source[FilteredArmor[k]].defense <= max_defense

(* C7: for every n < 64 the loop bound is 2^n and every shift 1 << j,      *)
(* j < n, stays within a 32-bit signed int, so that the masks 0..2^n - 1   *)
(* are each enumerated.                                                    *)
C7_NoOverflow ==
  (pc \in {"exh_loop", "done"} /\ Len(armors) < MaxExhaustiveSize) =>
    /\ Len(armors) - 1 < IntBits
    /\ Len(armors) < IntBits
    /\ subsetAmt = Pow2(Len(armors))
    /\ pc = "done" => index = Pow2(Len(armors))

(* C8: for a fixed catalog the total defense returned by each solver is    *)
(* non-decreasing in the budget.                                           *)
C8_MonotoneInBudget ==
  /\ \A b1, b2 \in DOMAIN dynRet :
       b1 <= b2 => SumDefense(armors, dynRet[b1]) <= SumDefense(armors, dynRet[b2])
  /\ \A b1, b2 \in DOMAIN exhRet :
       b1 <= b2 => SumDefense(armors, exhRet[b1]) <= SumDefense(armors, exhRet[b2])

(* C8 witness: both solvers returned strictly more defense at the current  *)
(* budget than at a smaller one, where the Solution was not empty.         *)
C8_Witness ==
  /\ pc = "done"
  /\ \E b1 \in DOMAIN dynRet :
       /\ b1 < total_cost
       /\ SumDefense(armors, dynRet[b1]) > 0
       /\ SumDefense(armors, dynRet[b1]) < SumDefense(armors, dynRet[total_cost])
       /\ SumDefense(armors, exhRet[b1]) < SumDefense(armors, exhRet[total_cost])

(* C9: on a readable file load_armor_database skips every invalid line and *)
(* returns the items of the valid lines in input order; an invalid line    *)
(* never makes it return nullptr or abort, and nullptr is returned only    *)
(* when the file cannot be opened.                                         *)
ValidLine(line) ==
  /\ line.fields = FieldCount
  /\ line.descr # ""
  /\ line.cost.numeric /\ line.cost.val > 0
  /\ line.defense.numeric

RECURSIVE ValidItems(_, _)
ValidItems(lines, k) ==
  IF k <= 1 THEN <<>>
  ELSE IF ValidLine(lines[k])
       THEN Append(ValidItems(lines, k - 1),
                   [description |-> lines[k].descr, cost |-> lines[k].cost.val,
                    defense |-> lines[k].defense.val])
       ELSE ValidItems(lines, k - 1)

C9_InvalidLinesSkipped ==
  /\ pc # "abort"
  /\ pc = "load_loop" => result = ValidItems(file.lines, line_number)
  /\ pc = "load_done" =>
       /\ loadRet.null <=> ~file.readable
       /\ file.readable => loadRet.items = ValidItems(file.lines, Len(file.lines))

(* C10: during backtracking horz stays within 0..budget, the defense of    *)
(* the items appended so far plus table[i][horz] equals table[n][budget],  *)
(* no item is appended twice, and the returned Solution's total defense is *)
(* table[n][budget].                                                       *)
C10_BacktrackInvariant ==
  /\ pc = "dyn_back" =>
       /\ horz \in 0..total_cost
       /\ SumDefense(armors, choice) + table[i][horz] = table[Len(armors)][total_cost]
       /\ NoDuplicates(choice)
  /\ pc = "call_exh" =>
       /\ SumDefense(armors, dynRet[total_cost]) = table[Len(armors)][total_cost]
       /\ NoDuplicates(dynRet[total_cost])

(* C10 witness: the backtracking loop has finished after appending at      *)
(* least two items, moving the column each time.                           *)
C10_Witness ==
  /\ pc = "dyn_back"
  /\ i = 0
  /\ Len(choice) >= 2
  /\ horz < total_cost

====
